---- MODULE Spec2Model ----
(***************************************************************************)
(* Model of the Terraform plan diff renderer and report pipeline:          *)
(*   src/terraform_diff.py         FilterModule (diff_yaml, restrict_before,*)
(*                                 _extract_changes, _diff, _diff_list)     *)
(*   src/diff_yaml.py              the stand-alone _diff / diff_yaml        *)
(*   src/terraform_plan_report.py  _clean_value, _redact, ActionModule.run  *)
(*                                                                         *)
(* A Python value is a tagged record:                                      *)
(*   None   [t |-> "none"]                                                 *)
(*   bool   [t |-> "bool", v |-> TRUE]                                     *)
(*   int    [t |-> "int",  v |-> 1]                                        *)
(*   str    [t |-> "str",  v |-> <<"a", "b">>]   (a sequence of characters)*)
(*   list   [t |-> "list", v |-> <<e1, e2>>]                               *)
(*   dict   [t |-> "dict", v |-> [k \in keys |-> value]]                   *)
(* Dict keys are strings (JSON), held as sequences of characters.  A dict  *)
(* is a function, so insertion order is not part of the model; the only    *)
(* place Python exposes it here is the repr of a dict, which the model     *)
(* writes in sorted key order.                                             *)
(***************************************************************************)
EXTENDS Integers, Sequences, FiniteSets, TLC

VARIABLES
    before_raw,         \* change["before"] as read from the plan
    after_raw,          \* change["after"] as read from the plan
    before,             \* `before` of the call / of the current resource
    after,              \* `after` of the call / of the current resource
    actions,            \* argument `actions` (a sequence of action tags)
    suppress_removals,  \* argument of _diff
    keep_root_empty_dict, \* keyword argument of _clean_value
    redact_keys,        \* the lower-cased redaction key set
    pc,                 \* position of the caller
    ret,                \* value returned by the last call
    resource_changes,   \* plan["resource_changes"] in ActionModule.run
    idx,                \* number of resources run() has consumed
    by_device,          \* run()'s grouping dict
    failure             \* the exception run() raised, or NoFailure

vars == <<before_raw, after_raw, before, after, actions, suppress_removals, keep_root_empty_dict,
          redact_keys, pc, ret, resource_changes, idx, by_device,
          failure>>

-----------------------------------------------------------------------------
(* Bounds of the model *)

MaxLen == 2

MaxActions == 2

MaxResources == 2

-----------------------------------------------------------------------------
(* Python values *)

None == [t |-> "none"]

PyBool(b) == [t |-> "bool", v |-> b]

PyInt(n) == [t |-> "int", v |-> n]

PyStr(s) == [t |-> "str", v |-> s]

PyList(s) == [t |-> "list", v |-> s]

PyDict(f) == [t |-> "dict", v |-> f]

EmptyDict == PyDict(<<>>)

EmptyList == PyList(<<>>)

isinstance_list(x) == x.t = "list"

isinstance_dict(x) == x.t = "dict"

is_None(x) == x.t = "none"

\* bool is a subclass of int: True == 1 and False == 0.
IsNumber(x) == x.t \in {"bool", "int"}

NumberOf(x) == IF x.t = "bool" THEN (IF x.v THEN 1 ELSE 0) ELSE x.v

RECURSIVE PyEq(_, _)
\* Python's == on JSON values.
PyEq(a, b) ==
    IF IsNumber(a) /\ IsNumber(b) THEN NumberOf(a) = NumberOf(b)
    ELSE IF a.t # b.t THEN FALSE
    ELSE IF a.t = "none" THEN TRUE
    ELSE IF a.t = "str" THEN a.v = b.v
    ELSE IF a.t = "list" THEN
        /\ Len(a.v) = Len(b.v)
        /\ \A i \in 1..Len(a.v) : PyEq(a.v[i], b.v[i])
    ELSE
        /\ DOMAIN a.v = DOMAIN b.v
        /\ \A k \in DOMAIN a.v : PyEq(a.v[k], b.v[k])

\* Python truthiness, as used by `x or default` and `if not x`.
Truthy(x) ==
    CASE x.t = "none" -> FALSE
      [] x.t = "bool" -> x.v
      [] x.t = "int" -> x.v # 0
      [] x.t = "str" -> Len(x.v) > 0
      [] x.t = "list" -> Len(x.v) > 0
      [] x.t = "dict" -> DOMAIN x.v # {}

\* `x or default`
Or(x, default) == IF Truthy(x) THEN x ELSE default

\* dict.get(key): the value, or None when the key is missing.
Get(d, k) == IF k \in DOMAIN d.v THEN d.v[k] ELSE None

-----------------------------------------------------------------------------
(* Characters and strings *)

\* The printable ASCII characters, code points 32 to 126, in order (code 96,
\* the grave accent, is held by name: no string of the model contains it).
Ascii ==
    <<" ", "!", "\"", "#", "$", "%", "&", "'", "(", ")", "*", "+", ",", "-",
      ".", "/", "0", "1", "2", "3", "4", "5", "6", "7", "8", "9", ":", ";",
      "<", "=", ">", "?", "@", "A", "B", "C", "D", "E", "F", "G", "H", "I",
      "J", "K", "L", "M", "N", "O", "P", "Q", "R", "S", "T", "U", "V", "W",
      "X", "Y", "Z", "[", "\\", "]", "^", "_", "grave", "a", "b", "c", "d", "e",
      "f", "g", "h", "i", "j", "k", "l", "m", "n", "o", "p", "q", "r", "s",
      "t", "u", "v", "w", "x", "y", "z", "{", "|", "}", "~">>

\* ord(c)
Ord(c) == 31 + CHOOSE i \in 1..Len(Ascii) : Ascii[i] = c

\* str.lower(), character by character.
LowerChar(c) ==
    IF Ord(c) >= Ord("A") /\ Ord(c) <= Ord("Z") THEN Ascii[Ord(c) + 32 - 31] ELSE c

Lower(s) == [i \in 1..Len(s) |-> LowerChar(s[i])]

\* s < t for strings: lexicographic by code point, as sorted() orders keys.
StrLess(s, t) ==
    \E i \in 1..(Len(t)) :
        /\ \A j \in 1..(i - 1) : j <= Len(s) /\ s[j] = t[j]
        /\ \/ i > Len(s)
           \/ Ord(s[i]) < Ord(t[i])

RECURSIVE sorted(_)
\* sorted(keys): the keys of the set in ascending order.
sorted(S) ==
    IF S = {} THEN <<>>
    ELSE LET m == CHOOSE k \in S : \A o \in S \ {k} : StrLess(k, o)
         IN  <<m>> \o sorted(S \ {m})

RECURSIVE Join(_, _)
\* sep.join(parts) for a sequence of strings.
Join(sep, parts) ==
    IF parts = <<>> THEN <<>>
    ELSE IF Len(parts) = 1 THEN parts[1]
    ELSE parts[1] \o sep \o Join(sep, Tail(parts))

RECURSIVE IntStr(_)
\* str(n) for an int n >= 0.
IntStr(n) ==
    IF n < 10 THEN <<Ascii[Ord("0") + n - 31]>>
    ELSE IntStr(n \div 10) \o <<Ascii[Ord("0") + (n % 10) - 31]>>

\* The quote repr() puts around a str: a double quote when the str holds a
\* single quote and no double quote, else a single quote.
Quote(s) ==
    IF (\E i \in 1..Len(s) : s[i] = "'") /\ ~(\E i \in 1..Len(s) : s[i] = "\"")
    THEN <<"\"">> ELSE <<"'">>

RECURSIVE repr(_)
\* repr(x).  The strings of the model hold no backslash and never both
\* kinds of quote, so repr() escapes nothing inside a str; a dict is written
\* in sorted key order.
repr(x) ==
    IF x.t = "none" THEN <<"N", "o", "n", "e">>
    ELSE IF x.t = "bool" THEN
        (IF x.v THEN <<"T", "r", "u", "e">> ELSE <<"F", "a", "l", "s", "e">>)
    ELSE IF x.t = "int" THEN IntStr(x.v)
    ELSE IF x.t = "str" THEN Quote(x.v) \o x.v \o Quote(x.v)
    ELSE IF x.t = "list" THEN
        <<"[">> \o Join(<<",", " ">>, [i \in 1..Len(x.v) |-> repr(x.v[i])])
                \o <<"]">>
    ELSE
        LET ks == sorted(DOMAIN x.v)
        IN  <<"{">> \o Join(<<",", " ">>,
                            [i \in 1..Len(ks) |->
                                Quote(ks[i]) \o ks[i] \o Quote(ks[i]) \o <<":", " ">>
                                        \o repr(x.v[ks[i]])])
                    \o <<"}">>

\* str(x): a str is itself, everything else is its repr.
str(x) == IF x.t = "str" THEN x.v ELSE repr(x)

\* html.escape of one character (quote=True).
escapeChar(c) ==
    IF c = "&" THEN <<"&", "a", "m", "p", ";">>
    ELSE IF c = "<" THEN <<"&", "l", "t", ";">>
    ELSE IF c = ">" THEN <<"&", "g", "t", ";">>
    ELSE IF c = "\"" THEN <<"&", "q", "u", "o", "t", ";">>
    ELSE IF c = "'" THEN <<"&", "#", "x", "2", "7", ";">>
    ELSE <<c>>

RECURSIVE escape(_)
\* html.escape(s)
escape(s) == IF s = <<>> THEN <<>> ELSE escapeChar(Head(s)) \o escape(Tail(s))

\* "  " * indent
Pad(indent) == [i \in 1..(2 * indent) |-> " "]

-----------------------------------------------------------------------------
(* src/terraform_plan_report.py *)

MASK == <<"*", "*", "*", "*", "*", "*", "*", "*", "*", "*">>

DEVICE_NAME == <<"d", "e", "v", "i", "c", "e", "_", "n", "a", "m", "e">>

RECURSIVE _clean_value(_, _)
\* _clean_value with the list filter testing the element itself
\* (`if v is not None`) instead of its cleaned value.
_clean_value_raw_filter(value, keep) ==
    IF is_None(value) THEN None
    ELSE IF isinstance_list(value) THEN
        LET not_None(v) == ~is_None(v)
            kept == SelectSeq(value.v, not_None)
            cleaned == PyList([i \in 1..Len(kept) |-> _clean_value(kept[i], FALSE)])
        IN  Or(cleaned, None)
    ELSE IF isinstance_dict(value) THEN
        LET kept == {k \in DOMAIN value.v : ~is_None(_clean_value(value.v[k], FALSE))}
            cleaned == PyDict([k \in kept |-> _clean_value(value.v[k], FALSE)])
        IN  IF ~Truthy(cleaned) THEN (IF keep THEN EmptyDict ELSE None)
            ELSE cleaned
    ELSE value

\* _clean_value(value, keep_root_empty_dict=keep); the recursive calls leave
\* keep_root_empty_dict at its default, False.
_clean_value(value, keep) ==
    IF is_None(value) THEN None
    ELSE IF isinstance_list(value) THEN
        LET each == [i \in 1..Len(value.v) |-> _clean_value(value.v[i], FALSE)]
            not_None(cv) == ~is_None(cv)
            cleaned == PyList(SelectSeq(each, not_None))
        IN  Or(cleaned, None)
    ELSE IF isinstance_dict(value) THEN
        LET kept == {k \in DOMAIN value.v : ~is_None(_clean_value(value.v[k], FALSE))}
            cleaned == PyDict([k \in kept |-> _clean_value(value.v[k], FALSE)])
        IN  IF ~Truthy(cleaned) THEN (IF keep THEN EmptyDict ELSE None)
            ELSE cleaned
    ELSE value

RECURSIVE _redact(_, _)
\* _redact matching the key as written (`k in keys`), without lower().
_redact_case_sensitive(obj, keys) ==
    IF isinstance_dict(obj) THEN
        PyDict([k \in DOMAIN obj.v |->
                    IF k \in keys THEN PyStr(MASK)
                    ELSE _redact(obj.v[k], keys)])
    ELSE IF isinstance_list(obj) THEN
        PyList([i \in 1..Len(obj.v) |-> _redact(obj.v[i], keys)])
    ELSE obj

\* _redact(obj, keys)
_redact(obj, keys) ==
    IF isinstance_dict(obj) THEN
        PyDict([k \in DOMAIN obj.v |->
                    IF Lower(k) \in keys THEN PyStr(MASK)
                    ELSE _redact(obj.v[k], keys)])
    ELSE IF isinstance_list(obj) THEN
        PyList([i \in 1..Len(obj.v) |-> _redact(obj.v[i], keys)])
    ELSE obj

\* before = _clean_value(change.get("before") or {},
\*                       keep_root_empty_dict=True) or {}
normalized(raw) == Or(_clean_value(Or(raw, EmptyDict), TRUE), EmptyDict)

\* device = after.get("device_name") or before.get("device_name")
device_of(b4, aft) == Or(Get(aft, DEVICE_NAME), Get(b4, DEVICE_NAME))

\* d.pop(key, None): d without the key.
Pop(d, key) == PyDict([k \in DOMAIN d.v \ {key} |-> d.v[k]])

\* A str, a number and None can be a dict key; a list or a dict cannot.
Hashable(x) == ~(isinstance_list(x) \/ isinstance_dict(x))

\* by_device.setdefault(device, []).append(entry)
setdefault_append(groups, device, entry) ==
    IF device \in DOMAIN groups
    THEN [groups EXCEPT ![device] = Append(@, entry)]
    ELSE (device :> <<entry>>) @@ groups

-----------------------------------------------------------------------------
(* src/terraform_diff.py: change extraction *)

RECURSIVE _extract_changes(_, _)
\* _extract_changes returning the output mappings as they are, without
\* `or None`.
_extract_changes_keep_empty(b4, aft) ==
    IF isinstance_dict(b4) /\ isinstance_dict(aft) THEN
        LET sub(k) == _extract_changes(b4.v[k], aft.v[k])
            changed == {k \in DOMAIN aft.v :
                            \/ k \notin DOMAIN b4.v
                            \/ ~is_None(sub(k)[1])
                            \/ ~is_None(sub(k)[2])}
            b_out == PyDict([k \in changed |->
                                IF k \notin DOMAIN b4.v THEN None ELSE sub(k)[1]])
            a_out == PyDict([k \in changed |->
                                IF k \notin DOMAIN b4.v THEN aft.v[k] ELSE sub(k)[2]])
        IN  <<b_out, a_out>>
    ELSE IF ~PyEq(b4, aft) THEN <<b4, aft>>
    ELSE <<None, None>>

\* FilterModule._extract_changes(before, after): the pair <<b, a>>.
_extract_changes(b4, aft) ==
    IF isinstance_dict(b4) /\ isinstance_dict(aft) THEN
        LET sub(k) == _extract_changes(b4.v[k], aft.v[k])
            changed == {k \in DOMAIN aft.v :
                            \/ k \notin DOMAIN b4.v
                            \/ ~is_None(sub(k)[1])
                            \/ ~is_None(sub(k)[2])}
            b_out == PyDict([k \in changed |->
                                IF k \notin DOMAIN b4.v THEN None ELSE sub(k)[1]])
            a_out == PyDict([k \in changed |->
                                IF k \notin DOMAIN b4.v THEN aft.v[k] ELSE sub(k)[2]])
        IN  <<Or(b_out, None), Or(a_out, None)>>
    ELSE IF isinstance_list(b4) /\ isinstance_list(aft) THEN
        IF ~PyEq(b4, aft) THEN <<b4, aft>> ELSE <<None, None>>
    ELSE IF ~PyEq(b4, aft) THEN <<b4, aft>>
    ELSE <<None, None>>

-----------------------------------------------------------------------------
(* src/terraform_diff.py: rendering *)

(* One output line.  The f-string                                          *)
(*     {pad}{prefix}<span class="{cls}">{text}</span>                       *)
(* (or {pad}{prefix}{text} when the line has no span) is held by its parts: *)
(* pad, prefix ("- " in a list, else empty), cls ("diff-add",              *)
(* "diff-update", "diff-del", or "" for no span) and text.                 *)
Line(pad, prefix, cls, text) ==
    [pad |-> pad, prefix |-> prefix, cls |-> cls, text |-> text]

\* What a call of the renderer yields: the list of lines it returns, or the
\* exception it raises.
Returns(lines) == [exc |-> "", lines |-> lines]

Raises(exc) == [exc |-> exc, lines |-> <<>>]

RECURSIVE Extend(_)
\* lines.extend(...) over a sequence of results, in order: the first
\* exception ends the call.
Extend(results) ==
    IF results = <<>> THEN Returns(<<>>)
    ELSE IF Head(results).exc # "" THEN Head(results)
    ELSE LET rest == Extend(Tail(results))
         IN  IF rest.exc # "" THEN rest
             ELSE Returns(Head(results).lines \o rest.lines)

Max(a, b) == IF a >= b THEN a ELSE b

\* len(x) is defined for str, list and dict.
HasLen(x) == x.t \in {"str", "list", "dict"}

PyLen(x) == IF x.t = "dict" THEN Cardinality(DOMAIN x.v) ELSE Len(x.v)

\* x[i] for an int i >= 0 within len(x): a list element or a one-character
\* str.  (A dict with str keys raises KeyError instead; see _diff_list.)
Item(x, i) == IF x.t = "str" THEN PyStr(<<x.v[i + 1]>>) ELSE x.v[i + 1]

\* The loop body of _diff_list without the suppress_removals test.
diff_list_item_unsuppressed(b, a, pad, suppress) ==
    LET prefix == <<"-", " ">>
    IN  IF is_None(b) THEN
            <<Line(pad, prefix, "diff-add", escape(str(a)))>>
        ELSE IF is_None(a) THEN
            <<Line(pad, prefix, "diff-del", escape(str(b)))>>
        ELSE IF PyEq(b, a) THEN
            <<Line(pad, prefix, "", escape(str(a)))>>
        ELSE
            <<Line(pad, prefix, "diff-update", escape(str(a)))>>

\* One pass of the loop of _diff_list: the lines index i adds, b and a
\* being None when i is past the end of before or after.
diff_list_item(b, a, pad, suppress) ==
    LET prefix == <<"-", " ">>
    IN  IF is_None(b) THEN
            <<Line(pad, prefix, "diff-add", escape(str(a)))>>
        ELSE IF is_None(a) THEN
            IF ~suppress
            THEN <<Line(pad, prefix, "diff-del", escape(str(b)))>>
            ELSE <<>>
        ELSE IF PyEq(b, a) THEN
            <<Line(pad, prefix, "", escape(str(a)))>>
        ELSE
            <<Line(pad, prefix, "diff-update", escape(str(a)))>>

\* FilterModule._diff_list(before, after, indent, suppress_removals):
\* len(before) raises TypeError on a number, before[i] raises KeyError on a
\* dict (its keys are strings).
_diff_list(b4, aft, indent, suppress) ==
    IF ~HasLen(b4) THEN Raises("TypeError")
    ELSE IF isinstance_dict(b4) /\ PyLen(b4) > 0 THEN Raises("KeyError")
    ELSE
        LET max_len == Max(PyLen(b4), PyLen(aft))
            at(i) ==
                diff_list_item(IF i < PyLen(b4) THEN Item(b4, i) ELSE None,
                               IF i < PyLen(aft) THEN Item(aft, i) ELSE None,
                               Pad(indent), suppress)
        IN  Extend([n \in 1..max_len |-> Returns(at(n - 1))])

RECURSIVE _diff(_, _, _, _)
\* FilterModule._diff(before, after, indent, suppress_removals)
_diff(b4, aft, indent, suppress) ==
    LET pad == Pad(indent) IN
    IF isinstance_list(aft) THEN
        _diff_list(Or(b4, EmptyList), aft, indent, suppress)
    ELSE IF isinstance_dict(aft) THEN
        LET bef == Or(b4, EmptyDict)
            keys == sorted(DOMAIN aft.v)
            removed == IF isinstance_dict(bef)
                       THEN sorted(DOMAIN bef.v \ DOMAIN aft.v) ELSE <<>>
            for_key(key) ==
                LET a == Get(aft, key)
                    b == Get(bef, key)
                    esc_key == escape(key)
                IN  IF key \notin DOMAIN bef.v THEN
                        Extend(<<Returns(<<Line(pad, <<>>, "diff-add", esc_key \o <<":">>)>>),
                                 _diff(EmptyDict, a, indent + 1, suppress)>>)
                    ELSE IF PyEq(b, a) THEN
                        IF isinstance_dict(a) \/ isinstance_list(a) THEN
                            Extend(<<Returns(<<Line(pad, <<>>, "", esc_key \o <<":">>)>>),
                                     _diff(b, a, indent + 1, suppress)>>)
                        ELSE
                            Returns(<<Line(pad, <<>>, "",
                                           esc_key \o <<":", " ">> \o escape(str(a)))>>)
                    ELSE
                        IF isinstance_dict(a) \/ isinstance_list(a) THEN
                            Extend(<<Returns(<<Line(pad, <<>>, "diff-update", esc_key \o <<":">>)>>),
                                     _diff(b, a, indent + 1, suppress)>>)
                        ELSE
                            Returns(<<Line(pad, <<>>, "diff-update",
                                           esc_key \o <<":", " ">> \o escape(str(a)))>>)
            for_removed(key) ==
                Returns(<<Line(pad, <<>>, "diff-del",
                               escape(key) \o <<":", " ">> \o escape(str(bef.v[key])))>>)
        IN  \* before.get / before.keys() exist only on a dict
            IF ~isinstance_dict(bef) THEN
                IF keys # <<>> \/ ~suppress THEN Raises("AttributeError")
                ELSE Returns(<<>>)
            ELSE
                Extend([n \in 1..Len(keys) |-> for_key(keys[n])]
                       \o (IF ~suppress
                           THEN [n \in 1..Len(removed) |-> for_removed(removed[n])]
                           ELSE <<>>))
    ELSE IF ~PyEq(b4, aft) THEN
        Returns(<<Line(pad, <<>>, "diff-update", escape(str(aft)))>>)
    ELSE
        Returns(<<Line(pad, <<>>, "", escape(str(aft)))>>)

is_replace(acts) ==
    (\E i \in 1..Len(acts) : acts[i] = "create")
        /\ (\E i \in 1..Len(acts) : acts[i] = "delete")

is_update(acts) == acts = <<"update">>

\* The restriction keeping only the keys before already has:
\* {k: before[k] for k in after if k in before}
restricted_known_keys(b4, aft) ==
    PyDict([k \in DOMAIN aft.v \cap DOMAIN b4.v |-> b4.v[k]])

\* {k: before.get(k) for k in after.keys()}
restricted(b4, aft) == PyDict([k \in DOMAIN aft.v |-> Get(b4, k)])

\* FilterModule.diff_yaml(before, after, actions).  The result is the list
\* of lines that "\n".join turns into the returned text, or the exception.
diff_yaml(b4_arg, aft_arg, acts) ==
    LET b0 == Or(b4_arg, EmptyDict)
        a0 == Or(aft_arg, EmptyDict)
        ex == _extract_changes(b0, a0)
        b1 == IF is_update(acts) THEN ex[1] ELSE b0
        a1 == IF is_update(acts) THEN ex[2] ELSE a0
        b2 == IF is_replace(acts) /\ isinstance_dict(b1) /\ isinstance_dict(a1)
              THEN restricted(b1, a1) ELSE b1
    IN  _diff(b2, a1, 0, is_replace(acts))

\* FilterModule.restrict_before(before, after, actions)
restrict_before(b4_arg, aft_arg, acts) ==
    LET b0 == Or(b4_arg, EmptyDict)
        a0 == Or(aft_arg, EmptyDict)
        b1 == IF is_update(acts) THEN _extract_changes(b0, a0)[1] ELSE b0
    IN  IF is_replace(acts) /\ isinstance_dict(b1) /\ isinstance_dict(a0)
        THEN restricted(b1, a0)
        ELSE b1

-----------------------------------------------------------------------------
(* src/diff_yaml.py *)

RECURSIVE DiffYaml_diff(_, _, _)
\* diff_yaml._diff(before, after, indent): the key is written as it is
\* (not escaped); this function raises nothing.
DiffYaml_diff(b4, aft, indent) ==
    LET pad == Pad(indent) IN
    IF isinstance_dict(b4) /\ isinstance_dict(aft) THEN
        LET keys == sorted(DOMAIN b4.v \cup DOMAIN aft.v)
            for_key(k) ==
                LET b == Get(b4, k)
                    a == Get(aft, k)
                IN  IF k \notin DOMAIN b4.v THEN
                        <<Line(pad, <<>>, "diff-add", k \o <<":", " ">> \o escape(str(a)))>>
                    ELSE IF k \notin DOMAIN aft.v THEN
                        <<Line(pad, <<>>, "diff-del", k \o <<":", " ">> \o escape(str(b)))>>
                    ELSE IF PyEq(b, a) THEN
                        IF isinstance_dict(a) THEN
                            <<Line(pad, <<>>, "", k \o <<":">>)>>
                                \o DiffYaml_diff(b, a, indent + 1)
                        ELSE <<Line(pad, <<>>, "", k \o <<":", " ">> \o escape(str(a)))>>
                    ELSE
                        IF isinstance_dict(a) THEN
                            <<Line(pad, <<>>, "diff-update", k \o <<":">>)>>
                                \o DiffYaml_diff(b, a, indent + 1)
                        ELSE <<Line(pad, <<>>, "diff-update",
                                    k \o <<":", " ">> \o escape(str(a)))>>
        IN  Extend([n \in 1..Len(keys) |-> Returns(for_key(keys[n]))]).lines
    ELSE IF ~PyEq(b4, aft) THEN
        <<Line(pad, <<>>, "diff-update", escape(str(aft)))>>
    ELSE
        <<Line(pad, <<>>, "", escape(str(aft)))>>

\* diff_yaml.diff_yaml(before, after)
DiffYaml_diff_yaml(b4, aft) ==
    Returns(DiffYaml_diff(Or(b4, EmptyDict), Or(aft, EmptyDict), 0))

-----------------------------------------------------------------------------
(* Inputs *)

\* The value of a variable the running call does not use.
Unset == [t |-> "unset"]

\* All sequences over S of length at most n.
Seqs(S, n) == UNION {[1..k -> S] : k \in 0..n}

\* All functions from a subset of the keys K into S.
Maps(K, S) == UNION {[D -> S] : D \in SUBSET K}

KeyA == <<"a">>

KeyB == <<"b">>

\* Values handed to _clean_value: scalars (None, a falsy and a truthy one),
\* flat lists and dicts of them, and lists and dicts of those.
CleanScalars == {None, PyInt(0), PyStr(<<"x">>)}

CleanInner ==
    CleanScalars
        \cup {PyList(s) : s \in Seqs(CleanScalars, MaxLen)}
        \cup {PyDict(f) : f \in Maps({KeyA, KeyB}, CleanScalars)}

CleanValues ==
    CleanInner
        \cup {PyList(<<v>>) : v \in CleanInner}
        \cup {PyDict(f) : f \in Maps({KeyA, KeyB}, CleanInner)}

\* Values handed to the renderer: scalars of every JSON kind, flat lists
\* and dicts, and pairs of them nested under a key or in a list.
RenderScalars == {None, PyBool(TRUE), PyInt(0), PyInt(1), PyStr(<<"<">>)}

RenderFlat ==
    RenderScalars
        \cup {PyList(s) : s \in Seqs(RenderScalars, MaxLen)}
        \cup {PyDict(f) : f \in Maps({KeyA, KeyB}, RenderScalars)}

RenderPairs ==
    (RenderFlat \X RenderFlat)
        \cup {<<PyDict(KeyA :> p[1]), PyDict(KeyA :> p[2])>> : p \in RenderFlat \X RenderFlat}
        \cup {<<PyList(<<p[1]>>), PyList(<<p[2]>>)>> : p \in RenderFlat \X RenderFlat}
        \cup {<<b, PyDict(KeyA :> a)>> : b \in {EmptyDict, PyDict(KeyB :> PyInt(1))},
                                         a \in RenderFlat}

\* Values handed to the filters diff_yaml and restrict_before, and to
\* _extract_changes: mappings over two keys whose values are scalars, empty
\* and one-element containers and null-valued entries, and some values
\* that are not mappings.
FilterInner ==
    {None, PyInt(1), PyInt(2), EmptyList, PyList(<<PyInt(1)>>), EmptyDict,
     PyDict(KeyA :> PyInt(1)), PyDict(KeyA :> None)}

FilterValues == FilterInner \cup {PyDict(f) : f \in Maps({KeyA, KeyB}, FilterInner)}

ActionTags == {"create", "update", "delete", "no-op"}

\* The action lists: up to MaxActions distinct tags, in any order.
ActionSets ==
    {s \in Seqs(ActionTags, MaxActions) :
        \A i, j \in 1..Len(s) : i # j => s[i] # s[j]}

KeyPw == <<"P", "w">>

\* Values held under the redacted key: two secret strings, containers
\* holding them, and values that normalization drops.
PipeSecrets ==
    {None, EmptyList, PyStr(<<"y">>), PyStr(<<"z">>), PyList(<<PyStr(<<"y">>)>>),
     PyDict(KeyA :> PyStr(<<"z">>))}

SecretChars == {"y", "z"}

PipePlain == {PyInt(1), PyInt(2)}

\* The before and after of one resource of the pipeline: None, or a mapping
\* with a plain field and a field to redact.
PipeValues ==
    {None} \cup
    {PyDict(f) : f \in {g \in Maps({KeyA, KeyPw}, PipePlain \cup PipeSecrets) :
                            /\ KeyA \in DOMAIN g => g[KeyA] \in PipePlain
                            /\ KeyPw \in DOMAIN g => g[KeyPw] \in PipeSecrets}}

\* The changes of a plan read by run(): with and without the grouping key,
\* on either side, and once with a grouping key that is a list.
RunBefore ==
    {None, PyDict(KeyA :> PyInt(1)),
     PyDict((KeyA :> PyInt(1)) @@ (DEVICE_NAME :> PyStr(<<"d", "1">>)))}

RunAfter ==
    {PyDict(KeyA :> PyInt(1)), PyDict(KeyA :> PyInt(2)),
     PyDict((KeyA :> PyInt(1)) @@ (DEVICE_NAME :> PyStr(<<"d", "1">>))),
     PyDict((KeyA :> PyInt(2)) @@ (DEVICE_NAME :> PyStr(<<"d", "1">>))),
     PyDict((KeyA :> PyInt(2)) @@ (DEVICE_NAME :> PyStr(<<"d", "2">>))),
     PyDict((KeyA :> PyInt(2)) @@ (DEVICE_NAME :> PyList(<<PyStr(<<"d", "1">>)>>)))}

Changes ==
    [actions : {<<"no-op">>, <<"update">>}, before : RunBefore, after : RunAfter]

\* The resource at position i of the plan.
Resource(i, change) ==
    [address |-> PyStr(<<"r">> \o IntStr(i)), type |-> PyStr(<<"t">>),
     name |-> PyStr(<<"n">> \o IntStr(i)), change |-> change]

-----------------------------------------------------------------------------
(* _clean_value applied, and applied again to its own result *)

InitClean ==
    /\ before_raw \in CleanValues
    /\ keep_root_empty_dict \in BOOLEAN
    /\ pc = "clean"
    /\ before = Unset /\ ret = Unset
    /\ after_raw = Unset /\ after = Unset /\ actions = <<>>
    /\ suppress_removals = FALSE /\ redact_keys = {}
    /\ resource_changes = <<>> /\ idx = 0 /\ by_device = <<>> /\ failure = Unset

\* before = _clean_value(before_raw, keep_root_empty_dict=...)
Clean ==
    /\ pc = "clean"
    /\ before' = _clean_value(before_raw, keep_root_empty_dict)
    /\ pc' = "cleaned"
    /\ UNCHANGED <<before_raw, after_raw, after, actions, suppress_removals,
                   keep_root_empty_dict, redact_keys, ret, resource_changes,
                   idx, by_device, failure>>

\* the same call on the value the first call returned
CleanAgain ==
    /\ pc = "cleaned"
    /\ ret' = _clean_value(before, keep_root_empty_dict)
    /\ pc' = "recleaned"
    /\ UNCHANGED <<before_raw, after_raw, before, after, actions,
                   suppress_removals, keep_root_empty_dict, redact_keys,
                   resource_changes, idx, by_device, failure>>

NextClean == Clean \/ CleanAgain

SpecClean == InitClean /\ [][NextClean]_vars

-----------------------------------------------------------------------------
(* The renderers called directly *)

InitRender ==
    /\ \E p \in RenderPairs : before = p[1] /\ after = p[2]
    /\ suppress_removals \in BOOLEAN
    /\ pc = "render"
    /\ ret = Unset
    /\ before_raw = Unset /\ after_raw = Unset /\ actions = <<>>
    /\ keep_root_empty_dict = FALSE /\ redact_keys = {}
    /\ resource_changes = <<>> /\ idx = 0 /\ by_device = <<>> /\ failure = Unset

\* FilterModule._diff(before, after, suppress_removals=...)
Diff ==
    /\ pc = "render"
    /\ ret' = _diff(before, after, 0, suppress_removals)
    /\ pc' = "rendered"
    /\ UNCHANGED <<before_raw, after_raw, before, after, actions,
                   suppress_removals, keep_root_empty_dict, redact_keys,
                   resource_changes, idx, by_device, failure>>

\* diff_yaml.diff_yaml(before, after), which has no suppress_removals
StandaloneDiff ==
    /\ pc = "render"
    /\ ~suppress_removals
    /\ ret' = DiffYaml_diff_yaml(before, after)
    /\ pc' = "rendered_standalone"
    /\ UNCHANGED <<before_raw, after_raw, before, after, actions,
                   suppress_removals, keep_root_empty_dict, redact_keys,
                   resource_changes, idx, by_device, failure>>

NextRender == Diff \/ StandaloneDiff

SpecRender == InitRender /\ [][NextRender]_vars

-----------------------------------------------------------------------------
(* Claims about _clean_value (SpecClean) *)

(* C5: the normalizer is idempotent: for every value and either setting of *)
(* keep_root_empty_dict, cleaning the cleaned value again (same setting)   *)
(* returns the cleaned value unchanged.                                    *)
C5_CleanIdempotent == pc = "recleaned" => ret = before

\* A root mapping under which a list lost an element to compaction and
\* survived, cleaned twice.
C5_Witness ==
    /\ pc = "recleaned"
    /\ keep_root_empty_dict
    /\ isinstance_dict(before_raw)
    /\ \E k \in DOMAIN before_raw.v :
        /\ isinstance_list(before_raw.v[k])
        /\ k \in DOMAIN before.v
        /\ Len(before.v[k].v) < Len(before_raw.v[k].v)

-----------------------------------------------------------------------------
(* Claims about the renderer called directly (SpecRender) *)

TagsOf(lines) == [i \in 1..Len(lines) |-> lines[i].cls]

Count(lines, line) == Cardinality({i \in 1..Len(lines) : lines[i] = line})

(* C1: the renderer never raises, whatever the shapes of before and after  *)
(* and whatever suppress_removals is.                                      *)
C1_RendererTotal == pc = "rendered" => ret.exc = ""

(* C2: rendering two mappings, a key that is only in after and holds a     *)
(* scalar yields exactly one line, tagged added, reading "key: value", and *)
(* no added header line; a key only in after that holds a mapping or a     *)
(* sequence yields the added header line.                                  *)
C2_AddedScalarInline ==
    (pc = "rendered" /\ ret.exc = "" /\ isinstance_dict(before) /\ isinstance_dict(after)) =>
        \A k \in DOMAIN after.v \ DOMAIN before.v :
            LET a == after.v[k]
                inline == Line(<<>>, <<>>, "diff-add",
                               escape(k) \o <<":", " ">> \o escape(str(a)))
                header == Line(<<>>, <<>>, "diff-add", escape(k) \o <<":">>)
            IN  IF isinstance_dict(a) \/ isinstance_list(a)
                THEN Count(ret.lines, header) = 1
                ELSE Count(ret.lines, inline) = 1 /\ Count(ret.lines, header) = 0

\* The tags the claim gives the indices 1 .. max(len(before), len(after)),
\* deciding by the index alone whether an element is there.
C10_PositionalTags(b, a, suppress) ==
    LET tag(i) == IF i > Len(b) THEN "diff-add"
                  ELSE IF i > Len(a) THEN "diff-del"
                  ELSE IF PyEq(b[i], a[i]) THEN ""
                  ELSE "diff-update"
        shown(t) == ~(suppress /\ t = "diff-del")
    IN  SelectSeq([i \in 1..Max(Len(b), Len(a)) |-> tag(i)], shown)

(* C10: rendering two sequences is positional: an index only in after is   *)
(* added, only in before is removed (no line when removals are suppressed), *)
(* in both is unchanged when the elements are equal and updated when not,  *)
(* null elements included; so there are max(len) lines, or len(after) with *)
(* suppression.                                                            *)
C10_ListPositional ==
    (pc = "rendered" /\ isinstance_list(before) /\ isinstance_list(after)) =>
        /\ ret.exc = ""
        /\ TagsOf(ret.lines) = C10_PositionalTags(before.v, after.v, suppress_removals)
        /\ Len(ret.lines) = IF suppress_removals THEN Len(after.v)
                            ELSE Max(Len(before.v), Len(after.v))

-----------------------------------------------------------------------------
(* The filters of FilterModule and _extract_changes called directly *)

InitFilter ==
    /\ before \in FilterValues
    /\ after \in FilterValues
    /\ pc = "filter"
    /\ ret = Unset /\ actions = <<>>
    /\ before_raw = Unset /\ after_raw = Unset /\ suppress_removals = FALSE
    /\ keep_root_empty_dict = FALSE /\ redact_keys = {}
    /\ resource_changes = <<>> /\ idx = 0 /\ by_device = <<>> /\ failure = Unset

\* FilterModule.diff_yaml(before, after, actions)
DiffYaml ==
    /\ pc = "filter"
    /\ \E acts \in ActionSets :
        /\ actions' = acts
        /\ ret' = diff_yaml(before, after, acts)
    /\ pc' = "diff_yaml"
    /\ UNCHANGED <<before_raw, after_raw, before, after, suppress_removals,
                   keep_root_empty_dict, redact_keys, resource_changes, idx,
                   by_device, failure>>

\* FilterModule.restrict_before(before, after, actions)
RestrictBefore ==
    /\ pc = "filter"
    /\ \E acts \in ActionSets :
        /\ actions' = acts
        /\ ret' = restrict_before(before, after, acts)
    /\ pc' = "restrict_before"
    /\ UNCHANGED <<before_raw, after_raw, before, after, suppress_removals,
                   keep_root_empty_dict, redact_keys, resource_changes, idx,
                   by_device, failure>>

\* FilterModule._extract_changes(before, after)
ExtractChanges ==
    /\ pc = "filter"
    /\ ret' = _extract_changes(before, after)
    /\ pc' = "extract_changes"
    /\ UNCHANGED <<before_raw, after_raw, before, after, actions,
                   suppress_removals, keep_root_empty_dict, redact_keys,
                   resource_changes, idx, by_device, failure>>

NextFilter == DiffYaml \/ RestrictBefore \/ ExtractChanges

SpecFilter == InitFilter /\ [][NextFilter]_vars

\* Every way the renderer is entered: directly, or through diff_yaml.
InitDiff == InitRender \/ InitFilter

NextDiff == Diff \/ StandaloneDiff \/ DiffYaml \/ RestrictBefore \/ ExtractChanges

SpecDiff == InitDiff /\ [][NextDiff]_vars

-----------------------------------------------------------------------------
(* Claims about the filters (SpecFilter, SpecDiff) *)

(* C3: with removals suppressed no output line carries the removed tag, at *)
(* any depth; diff_yaml called with actions holding both create and delete *)
(* suppresses removals, so it never emits a removed line.                  *)
C3_NoRemovedWhenSuppressed ==
    (\/ pc = "rendered" /\ suppress_removals
     \/ pc = "diff_yaml" /\ is_replace(actions)) =>
        \A i \in 1..Len(ret.lines) : ret.lines[i].cls # "diff-del"

\* A suppressed rendering that yields lines where the unsuppressed one
\* yields a removed line below the top level.
C3_Witness ==
    /\ pc = "rendered" /\ suppress_removals
    /\ ret.lines # <<>>
    /\ LET shown == _diff(before, after, 0, FALSE).lines
       IN  \E i \in 1..Len(shown) : shown[i].cls = "diff-del" /\ shown[i].pad # <<>>

(* C4: _extract_changes(v, v) returns (None, None) for every value v:      *)
(* never an empty mapping, never v itself (unless v is None).              *)
C4_EqualityCollapse ==
    (pc = "extract_changes" /\ before = after) => ret = <<None, None>>

\* v is a mapping with a null-valued entry and a nested mapping.
C4_Witness ==
    /\ pc = "extract_changes" /\ before = after
    /\ isinstance_dict(before)
    /\ \E k \in DOMAIN before.v : is_None(before.v[k])
    /\ \E k \in DOMAIN before.v : isinstance_dict(before.v[k]) /\ Truthy(before.v[k])

(* C7: for mappings before and after and actions holding both create and   *)
(* delete, restrict_before returns a mapping with exactly the keys of      *)
(* after: before's value where before has the key, None where it has not.  *)
C7_RestrictionKeySet ==
    (/\ pc = "restrict_before" /\ is_replace(actions)
     /\ isinstance_dict(before) /\ isinstance_dict(after)) =>
        /\ isinstance_dict(ret)
        /\ DOMAIN ret.v = DOMAIN after.v
        /\ \A k \in DOMAIN after.v :
            ret.v[k] = IF k \in DOMAIN before.v THEN before.v[k] ELSE None

\* before has a key after lacks, and after a key before never had.
C7_Witness ==
    /\ pc = "restrict_before" /\ is_replace(actions)
    /\ isinstance_dict(before) /\ isinstance_dict(after)
    /\ DOMAIN before.v \ DOMAIN after.v # {}
    /\ \E k \in DOMAIN after.v \ DOMAIN before.v : is_None(ret.v[k])

\* The lines of the top level whose text starts with "key:".
LinesOfKey(lines, key) ==
    LET head == escape(key) \o <<":">>
    IN  {i \in 1..Len(lines) :
            /\ lines[i].pad = <<>>
            /\ Len(lines[i].text) >= Len(head)
            /\ SubSeq(lines[i].text, 1, Len(head)) = head}

(* C9: diff_yaml with actions exactly ["update"] on mappings: a key of     *)
(* after that before lacks is an added field: it is no key of the before   *)
(* tree that change extraction hands to the renderer, its after-side is    *)
(* the full after value, and its line is tagged added.                     *)
C9_UpdateAddedKey ==
    (/\ pc = "diff_yaml" /\ actions = <<"update">>
     /\ isinstance_dict(before) /\ isinstance_dict(after)) =>
        \A k \in DOMAIN after.v \ DOMAIN before.v :
            LET ex == _extract_changes(Or(before, EmptyDict), Or(after, EmptyDict))
            IN  /\ isinstance_dict(ex[1]) => k \notin DOMAIN ex[1].v
                /\ isinstance_dict(ex[2]) /\ k \in DOMAIN ex[2].v /\ ex[2].v[k] = after.v[k]
                /\ LinesOfKey(ret.lines, k) # {}
                /\ \A i \in LinesOfKey(ret.lines, k) : ret.lines[i].cls = "diff-add"

-----------------------------------------------------------------------------
(* One resource through the pipeline: the steps of run() up to redaction,  *)
(* then the diff_yaml filter on what run() hands on.  (The grouping key    *)
(* that run() takes out of both trees first is not among the keys here.)   *)

InitPipeline ==
    /\ before_raw \in PipeValues
    /\ after_raw \in PipeValues
    /\ actions \in ActionSets
    /\ redact_keys \in {{}, {Lower(KeyPw)}}
    /\ pc = "pipeline"
    /\ before = Unset /\ after = Unset /\ ret = Unset
    /\ suppress_removals = FALSE /\ keep_root_empty_dict = TRUE
    /\ resource_changes = <<>> /\ idx = 0 /\ by_device = <<>> /\ failure = Unset

\* if actions == ["no-op"]: continue
PipeSkipNoOp ==
    /\ pc = "pipeline"
    /\ actions = <<"no-op">>
    /\ pc' = "skipped"
    /\ UNCHANGED <<before_raw, after_raw, before, after, actions,
                   suppress_removals, keep_root_empty_dict, redact_keys, ret,
                   resource_changes, idx, by_device, failure>>

Normalize ==
    /\ pc = "pipeline"
    /\ actions # <<"no-op">>
    /\ before' = normalized(before_raw)
    /\ after' = normalized(after_raw)
    /\ pc' = "normalized"
    /\ UNCHANGED <<before_raw, after_raw, actions, suppress_removals,
                   keep_root_empty_dict, redact_keys, ret, resource_changes,
                   idx, by_device, failure>>

\* if before == after: continue
PipeSkipUnchanged ==
    /\ pc = "normalized"
    /\ PyEq(before, after)
    /\ pc' = "skipped"
    /\ UNCHANGED <<before_raw, after_raw, before, after, actions,
                   suppress_removals, keep_root_empty_dict, redact_keys, ret,
                   resource_changes, idx, by_device, failure>>

Redact ==
    /\ pc = "normalized"
    /\ ~PyEq(before, after)
    /\ before' = _redact(before, redact_keys)
    /\ after' = _redact(after, redact_keys)
    /\ pc' = "redacted"
    /\ UNCHANGED <<before_raw, after_raw, actions, suppress_removals,
                   keep_root_empty_dict, redact_keys, ret, resource_changes,
                   idx, by_device, failure>>

\* diff_yaml(entry.before, entry.after, entry.actions)
PipeRender ==
    /\ pc = "redacted"
    /\ ret' = diff_yaml(before, after, actions)
    /\ pc' = "pipeline_rendered"
    /\ UNCHANGED <<before_raw, after_raw, before, after, actions,
                   suppress_removals, keep_root_empty_dict, redact_keys,
                   resource_changes, idx, by_device, failure>>

NextPipeline ==
    PipeSkipNoOp \/ Normalize \/ PipeSkipUnchanged \/ Redact \/ PipeRender

SpecPipeline == InitPipeline /\ [][NextPipeline]_vars

-----------------------------------------------------------------------------
(* ActionModule.run: the loop over resource_changes, one action for each   *)
(* way an iteration ends, and the return after the loop.                   *)

InitRun ==
    /\ \E cs \in Seqs(Changes, MaxResources) :
        resource_changes = [i \in 1..Len(cs) |-> Resource(i, cs[i])]
    /\ redact_keys \in {{}, {DEVICE_NAME}}
    /\ pc = "loop"
    /\ idx = 0 /\ by_device = <<>> /\ failure = Unset /\ ret = Unset
    /\ before_raw = Unset /\ after_raw = Unset /\ before = Unset /\ after = Unset
    /\ actions = <<>> /\ suppress_removals = FALSE /\ keep_root_empty_dict = TRUE

\* rc of the running iteration
rc == resource_changes[idx + 1]

InLoop == pc = "loop" /\ idx < Len(resource_changes)

\* The iteration's locals once line 122 is reached.
redacted_before == _redact(normalized(rc.change.before), redact_keys)

redacted_after == _redact(normalized(rc.change.after), redact_keys)

device == device_of(redacted_before, redacted_after)

\* if actions == ["no-op"]: continue
RunSkipNoOp ==
    /\ InLoop
    /\ rc.change.actions = <<"no-op">>
    /\ actions' = rc.change.actions
    /\ idx' = idx + 1
    /\ UNCHANGED <<before_raw, after_raw, before, after, suppress_removals,
                   keep_root_empty_dict, redact_keys, pc, ret,
                   resource_changes, by_device, failure>>

\* if before == after: continue
RunSkipUnchanged ==
    /\ InLoop
    /\ rc.change.actions # <<"no-op">>
    /\ PyEq(normalized(rc.change.before), normalized(rc.change.after))
    /\ actions' = rc.change.actions
    /\ before_raw' = Or(rc.change.before, EmptyDict)
    /\ after_raw' = Or(rc.change.after, EmptyDict)
    /\ before' = normalized(rc.change.before)
    /\ after' = normalized(rc.change.after)
    /\ idx' = idx + 1
    /\ UNCHANGED <<suppress_removals, keep_root_empty_dict, redact_keys, pc,
                   ret, resource_changes, by_device, failure>>

\* The iteration whose guard is that of RunRaiseMissingDevice, going on to
\* the next resource instead of raising.
RunSkipMissingDevice ==
    /\ InLoop
    /\ rc.change.actions # <<"no-op">>
    /\ ~PyEq(normalized(rc.change.before), normalized(rc.change.after))
    /\ ~Truthy(device)
    /\ actions' = rc.change.actions
    /\ before_raw' = Or(rc.change.before, EmptyDict)
    /\ after_raw' = Or(rc.change.after, EmptyDict)
    /\ before' = redacted_before
    /\ after' = redacted_after
    /\ idx' = idx + 1
    /\ UNCHANGED <<suppress_removals, keep_root_empty_dict, redact_keys, pc,
                   ret, resource_changes, by_device, failure>>

\* if not device: raise AnsibleActionFail(f"device_name missing in
\* resource {rc.get('address')}")
RunRaiseMissingDevice ==
    /\ InLoop
    /\ rc.change.actions # <<"no-op">>
    /\ ~PyEq(normalized(rc.change.before), normalized(rc.change.after))
    /\ ~Truthy(device)
    /\ actions' = rc.change.actions
    /\ before_raw' = Or(rc.change.before, EmptyDict)
    /\ after_raw' = Or(rc.change.after, EmptyDict)
    /\ before' = redacted_before
    /\ after' = redacted_after
    /\ failure' = [exc |-> "AnsibleActionFail", address |-> rc.address]
    /\ pc' = "raised"
    /\ UNCHANGED <<suppress_removals, keep_root_empty_dict, redact_keys, ret,
                   resource_changes, idx, by_device>>

\* by_device.setdefault(device, ...) with a device that is a list or a
\* dict: TypeError (unhashable type), after device_name was popped.
RunRaiseUnhashable ==
    /\ InLoop
    /\ rc.change.actions # <<"no-op">>
    /\ ~PyEq(normalized(rc.change.before), normalized(rc.change.after))
    /\ Truthy(device) /\ ~Hashable(device)
    /\ actions' = rc.change.actions
    /\ before_raw' = Or(rc.change.before, EmptyDict)
    /\ after_raw' = Or(rc.change.after, EmptyDict)
    /\ before' = Pop(redacted_before, DEVICE_NAME)
    /\ after' = Pop(redacted_after, DEVICE_NAME)
    /\ failure' = [exc |-> "TypeError", address |-> None]
    /\ pc' = "raised"
    /\ UNCHANGED <<suppress_removals, keep_root_empty_dict, redact_keys, ret,
                   resource_changes, idx, by_device>>

\* by_device.setdefault(device, []).append(entry)
RunAppend ==
    /\ InLoop
    /\ rc.change.actions # <<"no-op">>
    /\ ~PyEq(normalized(rc.change.before), normalized(rc.change.after))
    /\ Truthy(device) /\ Hashable(device)
    /\ actions' = rc.change.actions
    /\ before_raw' = Or(rc.change.before, EmptyDict)
    /\ after_raw' = Or(rc.change.after, EmptyDict)
    /\ before' = Pop(redacted_before, DEVICE_NAME)
    /\ after' = Pop(redacted_after, DEVICE_NAME)
    /\ by_device' = setdefault_append(by_device, device,
                        [address |-> rc.address, type |-> rc.type,
                         name |-> rc.name, actions |-> rc.change.actions,
                         before |-> Pop(redacted_before, DEVICE_NAME),
                         after |-> Pop(redacted_after, DEVICE_NAME)])
    /\ idx' = idx + 1
    /\ UNCHANGED <<suppress_removals, keep_root_empty_dict, redact_keys, pc,
                   ret, resource_changes, failure>>

\* return {"changed": False, "terraform_changes_by_device": by_device}
RunReturn ==
    /\ pc = "loop"
    /\ idx = Len(resource_changes)
    /\ ret' = [changed |-> FALSE, terraform_changes_by_device |-> by_device]
    /\ pc' = "returned"
    /\ UNCHANGED <<before_raw, after_raw, before, after, actions,
                   suppress_removals, keep_root_empty_dict, redact_keys,
                   resource_changes, idx, by_device, failure>>

NextRun ==
    \/ RunSkipNoOp
    \/ RunSkipUnchanged
    \/ RunRaiseMissingDevice
    \/ RunRaiseUnhashable
    \/ RunAppend
    \/ RunReturn

SpecRun == InitRun /\ [][NextRun]_vars

-----------------------------------------------------------------------------
(* Claims about the pipeline (SpecPipeline) *)

\* Key k is held by both raw mappings, with different values, and is to be
\* redacted.
RedactedOnBothSides(k) ==
    /\ isinstance_dict(before_raw) /\ isinstance_dict(after_raw)
    /\ k \in DOMAIN before_raw.v /\ k \in DOMAIN after_raw.v
    /\ Lower(k) \in redact_keys
    /\ ~PyEq(before_raw.v[k], after_raw.v[k])

\* The line "key: **********" of the top level, without markup.
MaskLine(k) == Line(<<>>, <<>>, "", escape(k) \o <<":", " ">> \o escape(str(PyStr(MASK))))

InLines(lines, line) == \E i \in 1..Len(lines) : lines[i] = line

\* No character of a secret is in any line.
NoSecretShown(lines) ==
    \A i \in 1..Len(lines) :
        \A j \in 1..Len(lines[i].text) : lines[i].text[j] \notin SecretChars

\* Normalization kept key k on both sides (neither value was null or an
\* empty container): k is a key of both trees handed to diff_yaml.
KeptOnBothSides(k) == k \in DOMAIN before.v /\ k \in DOMAIN after.v

-----------------------------------------------------------------------------
(* Claims about ActionModule.run (SpecRun) *)

\* A resource with a real change and the grouping key on neither side.
MissingDevice(r) ==
    /\ r.change.actions # <<"no-op">>
    /\ ~PyEq(normalized(r.change.before), normalized(r.change.after))
    /\ DEVICE_NAME \notin DOMAIN Or(r.change.before, EmptyDict).v
    /\ DEVICE_NAME \notin DOMAIN Or(r.change.after, EmptyDict).v

(* C8: run() never goes past a resource that has a real change and the     *)
(* grouping key on neither side: reaching it, the next step raises the     *)
(* error naming that resource, whatever was grouped before, and no result  *)
(* is returned then or later.                                              *)
C8_MissingDeviceAborts ==
    /\ [](/\ \A i \in 1..idx : ~MissingDevice(resource_changes[i])
          /\ pc = "returned" => idx = Len(resource_changes)
          /\ pc = "raised" => ret = Unset)
    /\ [][(InLoop /\ MissingDevice(rc)) =>
            /\ pc' = "raised"
            /\ failure' = [exc |-> "AnsibleActionFail", address |-> rc.address]
            /\ ret' = Unset]_vars

\* The error raised for the second resource after the first was grouped.
C8_Witness ==
    /\ pc = "raised"
    /\ idx >= 1
    /\ DOMAIN by_device # {}
    /\ MissingDevice(resource_changes[idx + 1])
    /\ failure = [exc |-> "AnsibleActionFail",
                  address |-> resource_changes[idx + 1].address]

====
